---------------------------- MODULE Spec2Model ----------------------------
(***************************************************************************)
(* A model of the Enigma emulation in src/enigma.py: the Rotor class, the  *)
(* Enigma class (_configure, step, encypher) and the calls a client makes. *)
(*                                                                         *)
(* Python strings are sequences of one-character strings, Python lists are *)
(* sequences read through PyIndex (0-based, negative indices count from    *)
(* the end, anything else raises IndexError).  A rotor object is named by  *)
(* its place in the catalogue: self.rotors[k] is rotor k+1, and the        *)
(* reflector self.reflectorB is rotor 6.                                   *)
(***************************************************************************)
EXTENDS Integers, Sequences, FiniteSets, TLC

VARIABLES
    position,           \* Rotor.position, per rotor object
    ring_setting,       \* Rotor.ring_setting, per rotor object
    out_alphabet_out,   \* Rotor.out_alphabet_out, per rotor object
    out_alphabet_back,  \* Rotor.out_alphabet_back, per rotor object
    left,               \* Rotor.left, per rotor object
    right,              \* Rotor.right, per rotor object
    rotor_L,            \* Enigma.rotor_L
    rotor_M,            \* Enigma.rotor_M
    rotor_R,            \* Enigma.rotor_R
    reflector,          \* Enigma.reflector
    plugboard,          \* Enigma.plugboard
    STATIC,             \* Enigma.STATIC
    last,               \* the last call made on the machine and its outcome
    nkeys,              \* number of step and encypher calls that returned
    nconf,              \* number of _configure and set_ring calls
    phase,              \* message exchange: "idle", "encode" or "decode"
    key,                \* message exchange: the configuration in use
    plain,              \* message exchange: the letters enciphered
    cipher,             \* message exchange: what they were enciphered to
    decoded             \* message exchange: what the cipher was enciphered to

machine == <<position, ring_setting, out_alphabet_out, out_alphabet_back,
             left, right, rotor_L, rotor_M, rotor_R, reflector, plugboard,
             STATIC>>
exchange == <<phase, key, plain, cipher, decoded>>
vars == <<machine, last, nkeys, nconf, exchange>>

---------------------------------------------------------------------------
(* Bounds of the model.                                                    *)

\* step and encypher calls in one behaviour
MaxKeys == 3
\* _configure calls in one behaviour
MaxConfigs == 1
\* step and encypher calls after the one _configure call of SpecStep
MaxPresses == 2
\* letters of a message in SpecExchange
MaxMessage == 5
\* set_ring calls in one behaviour of SpecRing
MaxRings == 2

---------------------------------------------------------------------------
(* Python built-ins.                                                       *)

ASCII ==
    <<
       " ", "!", "\"", "#", "$", "%", "&", "'", "(", ")", "*", "+", ",", "-", ".", "/",
       "0", "1", "2", "3", "4", "5", "6", "7", "8", "9", ":", ";", "<", "=", ">", "?",
       "@", "A", "B", "C", "D", "E", "F", "G", "H", "I", "J", "K", "L", "M", "N", "O",
       "P", "Q", "R", "S", "T", "U", "V", "W", "X", "Y", "Z", "[", "\\", "]", "^", "_",
       "grave", "a", "b", "c", "d", "e", "f", "g", "h", "i", "j", "k", "l", "m", "n", "o",
       "p", "q", "r", "s", "t", "u", "v", "w", "x", "y", "z", "{", "|", "}", "~"
    >>

\* ord(c) of a one-character string (code 96 is entered by name)
ord(c) == 31 + (CHOOSE i \in 1..Len(ASCII) : ASCII[i] = c)

\* chr(n)
chr(n) == ASCII[n - 31]

\* int(c) of a one-character string: a digit's value, -1 for ValueError
int(c) == IF ord(c) \in 48..57 THEN ord(c) - 48 ELSE -1

\* whether list[i] is an element of the list (no IndexError)
PyInRange(list, i) == -Len(list) <= i /\ i < Len(list)

\* list[i]
PyIndex(list, i) == IF i < 0 THEN list[Len(list) + i + 1] ELSE list[i + 1]

\* list[i] = v
PyStore(list, i, v) ==
    IF i < 0 THEN [list EXCEPT ![Len(list) + i + 1] = v]
             ELSE [list EXCEPT ![i + 1] = v]

\* a slice bound, clamped as Python clamps it
PyBound(list, i) ==
    IF i < 0 THEN (IF Len(list) + i < 0 THEN 0 ELSE Len(list) + i)
             ELSE (IF i > Len(list) THEN Len(list) ELSE i)

\* list[i:]
PySliceFrom(list, i) == SubSeq(list, PyBound(list, i) + 1, Len(list))

\* list[:i]
PySliceTo(list, i) == SubSeq(list, 1, PyBound(list, i))

---------------------------------------------------------------------------
(* The catalogue: Enigma.__init__ builds five rotors and one reflector.    *)

None == 0
Rotors == 1..5
reflectorB == 6
RotorObjects == Rotors \cup {reflectorB}

rotor_id == <<"I", "II", "III", "IV", "V", "Wide-B">>

Wiring ==
    << <<"E","K","M","F","L","G","D","Q","V","Z","N","T","O","W","Y","H","X","U","S","P","A","I","B","R","C","J">>,
       <<"A","J","D","K","S","I","R","U","X","B","L","H","W","T","M","C","Q","G","Z","N","P","Y","F","V","O","E">>,
       <<"B","D","F","H","J","L","C","P","R","T","X","V","Z","N","Y","E","I","W","G","A","K","M","U","S","Q","O">>,
       <<"E","S","O","V","P","Z","J","A","Y","Q","U","I","R","H","X","L","N","F","T","G","K","D","C","M","W","B">>,
       <<"V","Z","B","R","G","I","T","Y","U","P","S","D","N","H","L","X","A","W","M","J","Q","O","F","E","C","K">>,
       <<"Y","R","U","H","Q","S","L","D","P","X","N","G","O","K","M","I","E","B","F","Z","C","W","V","J","A","T">> >>

\* the notch argument of each Rotor(...); '%' is the default the reflector gets
NotchLetter == <<"Q", "E", "V", "J", "Z", "%">>

\* self.A_ring_setting_alphabet of each rotor object
A_ring_setting_alphabet ==
    [r \in RotorObjects |-> [i \in 1..26 |-> ord(Wiring[r][i]) - 65]]

\* self.notch of each rotor object
notch == [r \in RotorObjects |-> ord(NotchLetter[r]) - 65]

---------------------------------------------------------------------------
(* class Rotor.  m is the machine: a record of the state variables.        *)

RECURSIVE back_loop(_, _, _)

\* the loop of _back_alphabet storing each code at its own place
back_loop_copy(out_alphabet, back_alph, k) ==
    IF k > Len(out_alphabet) THEN back_alph
    ELSE LET character_position == out_alphabet[k]
         IN  back_loop(out_alphabet,
                       PyStore(back_alph,
                               character_position,
                               PyIndex(out_alphabet, character_position)),
                       k + 1)

\* the loop of _back_alphabet, from the k-th element of out_alphabet on
back_loop(out_alphabet, back_alph, k) ==
    IF k > Len(out_alphabet) THEN back_alph
    ELSE LET character_position == out_alphabet[k]
         IN  back_loop(out_alphabet,
                       PyStore(back_alph,
                               PyIndex(out_alphabet, character_position),
                               character_position),
                       k + 1)

_back_alphabet(out_alphabet) ==
    back_loop(out_alphabet, [i \in 1..26 |-> 0], 1)

encode_out(m, rotor, code) == PyIndex(m.out_alphabet_out[rotor], code)

encode_back(m, rotor, code) == PyIndex(m.out_alphabet_back[rotor], code)

set_position(m, rotor, letter) ==
    [m EXCEPT !.position[rotor] =
        (ord(letter) - (65 + m.ring_setting[rotor])) % 26]

get_internal_position(m, rotor) == chr((m.position[rotor] % 26) + 65)

increment_position(m, rotor) ==
    [m EXCEPT !.position[rotor] = (m.position[rotor] + 1) % 26]

\* the table of set_ring with the contacts rotated and the letters not shifted
ring_alphabet_unshifted(rotor, setting) ==
    IF setting = 0 THEN A_ring_setting_alphabet[rotor]
    ELSE PySliceFrom(A_ring_setting_alphabet[rotor], -setting)
         \o PySliceTo(A_ring_setting_alphabet[rotor], -setting)

\* the wiring table set_ring builds for a ring setting
ring_alphabet(rotor, setting) ==
    IF setting = 0 THEN A_ring_setting_alphabet[rotor]
    ELSE LET rotated ==
                 PySliceFrom(A_ring_setting_alphabet[rotor], -setting)
                 \o PySliceTo(A_ring_setting_alphabet[rotor], -setting)
         IN  [i \in 1..Len(rotated) |-> (rotated[i] + setting) % 26]

set_ring(m, rotor, letter) ==
    LET setting == ord(letter) - 65
        out == ring_alphabet(rotor, setting)
    IN  [m EXCEPT !.ring_setting[rotor] = setting,
                  !.out_alphabet_out[rotor] = out,
                  !.out_alphabet_back[rotor] = _back_alphabet(out)]

get_ring_setting(m, rotor) == chr(m.ring_setting[rotor] + 65)

get_window_numeral(m, rotor) == (m.position[rotor] + m.ring_setting[rotor]) % 26

get_window_letter(m, rotor) ==
    chr(((m.position[rotor] + m.ring_setting[rotor]) % 26) + 65)

alphabet(m, rotor) ==
    [i \in 1..Len(m.out_alphabet_out[rotor]) |->
        chr(m.out_alphabet_out[rotor][i] + 65)]

---------------------------------------------------------------------------
(* class Enigma.  A call either returns or raises: an outcome is the       *)
(* machine the call leaves behind and the exception it raised ("" if none).*)

\* self.rotors
rotors == <<1, 2, 3, 4, 5>>

\* the machine as the state variables hold it
Machine ==
    [position |-> position, ring_setting |-> ring_setting,
     out_alphabet_out |-> out_alphabet_out,
     out_alphabet_back |-> out_alphabet_back,
     left |-> left, right |-> right,
     rotor_L |-> rotor_L, rotor_M |-> rotor_M, rotor_R |-> rotor_R,
     reflector |-> reflector, plugboard |-> plugboard, STATIC |-> STATIC]

Returns(m) == [m |-> m, raised |-> ""]

Raises(m, exception) == [m |-> m, raised |-> exception]

_assemble_rotors(m, l, middle, r, refl) ==
    LET left1 == [m.left EXCEPT ![r] = middle]
        left2 == [left1 EXCEPT ![middle] = l]
        left3 == [left2 EXCEPT ![l] = refl]
        right1 == [m.right EXCEPT ![refl] = l]
        right2 == [right1 EXCEPT ![l] = middle]
        right3 == [right2 EXCEPT ![middle] = r]
    IN  [m EXCEPT !.rotor_L = l, !.rotor_M = middle, !.rotor_R = r,
                  !.reflector = refl, !.left = left3, !.right = right3]

get_window(m) ==
    <<get_window_letter(m, m.rotor_L), get_window_letter(m, m.rotor_M),
      get_window_letter(m, m.rotor_R)>>

get_internal_positions(m) ==
    <<get_internal_position(m, m.rotor_L),
      get_internal_position(m, m.rotor_M),
      get_internal_position(m, m.rotor_R)>>

\* set_positions leaving the left rotor where it stands
set_positions_skips_left(m, trigram) ==
    IF Len(trigram) < 2 THEN Raises(m, "IndexError")
    ELSE LET m2 == set_position(m, m.rotor_M, trigram[2])
         IN  IF Len(trigram) < 3 THEN Raises(m2, "IndexError")
             ELSE Returns(set_position(m2, m2.rotor_R, trigram[3]))

\* trigram[k] raises IndexError on a string of k letters or fewer
set_positions(m, trigram) ==
    IF Len(trigram) < 1 THEN Raises(m, "IndexError")
    ELSE LET m1 == set_position(m, m.rotor_L, trigram[1])
         IN  IF Len(trigram) < 2 THEN Raises(m1, "IndexError")
             ELSE LET m2 == set_position(m1, m1.rotor_M, trigram[2])
                  IN  IF Len(trigram) < 3 THEN Raises(m2, "IndexError")
                      ELSE Returns(set_position(m2, m2.rotor_R, trigram[3]))

set_rings(m, trigram) ==
    IF Len(trigram) < 1 THEN Raises(m, "IndexError")
    ELSE LET m1 == set_ring(m, m.rotor_L, trigram[1])
         IN  IF Len(trigram) < 2 THEN Raises(m1, "IndexError")
             ELSE LET m2 == set_ring(m1, m1.rotor_M, trigram[2])
                  IN  IF Len(trigram) < 3 THEN Raises(m2, "IndexError")
                      ELSE Returns(set_ring(m2, m2.rotor_R, trigram[3]))

\* what self.rotors[ int(rotor_selection[k])-1 ] raises, "" if nothing
choice_raises(rotor_selection, k) ==
    IF Len(rotor_selection) < k + 1 THEN "IndexError"
    ELSE IF int(rotor_selection[k + 1]) = -1 THEN "ValueError"
    ELSE IF ~PyInRange(rotors, int(rotor_selection[k + 1]) - 1) THEN "IndexError"
    ELSE ""

\* self.rotors[ int(rotor_selection[k])-1 ]
choice(rotor_selection, k) == PyIndex(rotors, int(rotor_selection[k + 1]) - 1)

\* one bigram of the plugboard wired one way only
plug_bigram_one_way(table, bigram) ==
    IF Len(bigram) < 2 THEN Raises(table, "IndexError")
    ELSE LET a == ord(bigram[1]) - 65
             b == ord(bigram[2]) - 65
         IN  IF ~PyInRange(table, a) THEN Raises(table, "IndexError")
             ELSE IF ~PyInRange(table, b)
                  THEN Raises(PyStore(table, a, b), "IndexError")
                  ELSE Returns(PyStore(table, a, b))

\* the two assignments _configure makes for one bigram of the plugboard
plug_bigram(table, bigram) ==
    IF Len(bigram) < 2 THEN Raises(table, "IndexError")
    ELSE LET a == ord(bigram[1]) - 65
             b == ord(bigram[2]) - 65
         IN  IF ~PyInRange(table, a) THEN Raises(table, "IndexError")
             ELSE IF ~PyInRange(table, b)
                  THEN Raises(PyStore(table, a, b), "IndexError")
                  ELSE Returns(PyStore(PyStore(table, a, b), b, a))

RECURSIVE plug_loop(_, _, _)
\* the loop of _configure over the bigrams, from the k-th on
plug_loop(table, bigrams, k) ==
    IF k > Len(bigrams) THEN Returns(table)
    ELSE LET one == plug_bigram(table, bigrams[k])
         IN  IF one.raised # "" THEN one
             ELSE plug_loop(one.m, bigrams, k + 1)

\* the plugboard argument is a tuple of bigrams; None and () are both <<>>
_configure(m, rotor_selection, ring_settings, plugs, indicator) ==
    IF choice_raises(rotor_selection, 0) # ""
    THEN Raises(m, choice_raises(rotor_selection, 0))
    ELSE IF choice_raises(rotor_selection, 1) # ""
    THEN Raises(m, choice_raises(rotor_selection, 1))
    ELSE IF choice_raises(rotor_selection, 2) # ""
    THEN Raises(m, choice_raises(rotor_selection, 2))
    ELSE
    LET assembled == _assemble_rotors(m, choice(rotor_selection, 0),
                                      choice(rotor_selection, 1),
                                      choice(rotor_selection, 2), reflectorB)
        ringed == set_rings(assembled, ring_settings)
    IN  IF ringed.raised # "" THEN ringed
        ELSE
        LET table == plug_loop([i \in 1..26 |-> i - 1], plugs, 1)
            plugged == [ringed.m EXCEPT !.plugboard = table.m]
        IN  IF table.raised # "" THEN Raises(plugged, table.raised)
            ELSE set_positions(plugged, indicator)

RECURSIVE step(_, _)

\* step without the double-stepping branch
step_no_double(m, rotor) ==
    LET carry == (get_window_numeral(m, rotor) = notch[rotor])
        stepped == increment_position(m, rotor)
    IN  IF /\ stepped.left[rotor] # None
           /\ stepped.left[rotor] # stepped.reflector
           /\ carry
        THEN step(stepped, stepped.left[rotor])
        ELSE stepped

\* step carrying into whatever stands on the left, the reflector too
step_through_reflector(m, rotor) ==
    LET carry == (get_window_numeral(m, rotor) = notch[rotor])
        stepped == increment_position(m, rotor)
        doubled ==
            IF /\ rotor = stepped.rotor_R
               /\ get_window_numeral(stepped, stepped.left[rotor])
                      = notch[stepped.left[rotor]]
               /\ ~carry
            THEN step(stepped, stepped.left[rotor])
            ELSE stepped
    IN  IF /\ doubled.left[rotor] # None
           /\ carry
        THEN step(doubled, doubled.left[rotor])
        ELSE doubled

\* step with a carry that is never seen (the window letter compared with
\* the notch number)
step_carry_by_letter(m, rotor) ==
    LET carry == FALSE
        stepped == increment_position(m, rotor)
        doubled ==
            IF /\ rotor = stepped.rotor_R
               /\ get_window_numeral(stepped, stepped.left[rotor])
                      = notch[stepped.left[rotor]]
               /\ ~carry
            THEN step(stepped, stepped.left[rotor])
            ELSE stepped
    IN  IF /\ doubled.left[rotor] # None
           /\ doubled.left[rotor] # doubled.reflector
           /\ carry
        THEN step(doubled, doubled.left[rotor])
        ELSE doubled

\* step with the double-stepping branch taken on a carry too
step_double_and_carry(m, rotor) ==
    LET carry == (get_window_numeral(m, rotor) = notch[rotor])
        stepped == increment_position(m, rotor)
        doubled ==
            IF /\ rotor = stepped.rotor_R
               /\ get_window_numeral(stepped, stepped.left[rotor])
                      = notch[stepped.left[rotor]]
            THEN step(stepped, stepped.left[rotor])
            ELSE stepped
    IN  IF /\ doubled.left[rotor] # None
           /\ doubled.left[rotor] # doubled.reflector
           /\ carry
        THEN step(doubled, doubled.left[rotor])
        ELSE doubled

\* step with the carry read from the raw position, not from the window
step_raw_position(m, rotor) ==
    LET carry == (m.position[rotor] = notch[rotor])
        stepped == increment_position(m, rotor)
        doubled ==
            IF /\ rotor = stepped.rotor_R
               /\ get_window_numeral(stepped, stepped.left[rotor])
                      = notch[stepped.left[rotor]]
               /\ ~carry
            THEN step(stepped, stepped.left[rotor])
            ELSE stepped
    IN  IF /\ doubled.left[rotor] # None
           /\ doubled.left[rotor] # doubled.reflector
           /\ carry
        THEN step(doubled, doubled.left[rotor])
        ELSE doubled

step(m, rotor) ==
    LET carry == (get_window_numeral(m, rotor) = notch[rotor])
        stepped == increment_position(m, rotor)
        \* double-stepping
        doubled ==
            IF /\ rotor = stepped.rotor_R
               /\ get_window_numeral(stepped, stepped.left[rotor])
                      = notch[stepped.left[rotor]]
               /\ ~carry
            THEN step(stepped, stepped.left[rotor])
            ELSE stepped
    IN  IF /\ doubled.left[rotor] # None
           /\ doubled.left[rotor] # doubled.reflector
           /\ carry
        THEN step(doubled, doubled.left[rotor])
        ELSE doubled

\* one rotor of the way out, the loop over (rotor_R, rotor_M, rotor_L)
way_out(m, rotor, input_code) ==
    LET exit_code ==
            IF rotor = m.rotor_R
            THEN encode_out(m, rotor, (input_code + m.position[rotor]) % 26)
            ELSE encode_out(m, rotor, input_code)
    IN  (exit_code - m.position[rotor] + m.position[m.left[rotor]]) % 26

\* the turnaround passing the code on without the table of the reflector
turnaround_straight(m, input_code) ==
    (input_code + m.position[m.right[m.reflector]]) % 26

\* the turnaround in the reflector
turnaround(m, input_code) ==
    LET exit_code == encode_out(m, m.reflector, input_code)
    IN  (exit_code + m.position[m.right[m.reflector]]) % 26

\* the way back without the position of the rotor on the right
way_back_unframed(m, rotor, input_code) ==
    LET exit_code == encode_back(m, rotor, input_code)
    IN  (exit_code - m.position[rotor]) % 26

\* one rotor of the way back, the loop over (rotor_L, rotor_M, rotor_R)
way_back(m, rotor, input_code) ==
    LET exit_code == encode_back(m, rotor, input_code)
    IN  IF rotor = m.rotor_R
        THEN (exit_code - m.position[rotor]) % 26
        ELSE (exit_code - m.position[rotor] + m.position[m.right[rotor]]) % 26

\* the code encypher ends with, from the code the plugboard gave; the
\* code after each rotor is held as a one-element set, computed once
scramble(m, input_code) ==
    LET out1 == { way_out(m, m.rotor_R, code) : code \in {input_code} }
        out2 == { way_out(m, m.rotor_M, code) : code \in out1 }
        out3 == { way_out(m, m.rotor_L, code) : code \in out2 }
        turned == { turnaround(m, code) : code \in out3 }
        back1 == { way_back(m, m.rotor_L, code) : code \in turned }
        back2 == { way_back(m, m.rotor_M, code) : code \in back1 }
        back3 == { way_back(m, m.rotor_R, code) : code \in back2 }
    IN  CHOOSE return_code \in back3 : TRUE

\* encypher stepping the rotors before it looks the letter up
encypher_steps_first(m, letter) ==
    LET stepped == IF ~m.STATIC THEN step(m, m.rotor_R) ELSE m
    IN  IF Len(letter) # 1
        THEN [m |-> stepped, raised |-> "TypeError", out |-> "",
              return_code |-> -1]
        ELSE IF ~PyInRange(m.plugboard, ord(letter[1]) - 65)
        THEN [m |-> stepped, raised |-> "IndexError", out |-> "",
              return_code |-> -1]
        ELSE
        LET input_code == PyIndex(m.plugboard, ord(letter[1]) - 65)
            return_code == scramble(stepped, input_code)
        IN  [m |-> stepped, raised |-> "", out |-> chr(return_code + 65),
             return_code |-> return_code]

\* encypher looking the letter up before it steps the rotors
encypher_steps_after(m, letter) ==
    IF Len(letter) # 1
    THEN [m |-> m, raised |-> "TypeError", out |-> "", return_code |-> -1]
    ELSE IF ~PyInRange(m.plugboard, ord(letter[1]) - 65)
    THEN [m |-> m, raised |-> "IndexError", out |-> "", return_code |-> -1]
    ELSE
    LET input_code == PyIndex(m.plugboard, ord(letter[1]) - 65)
        return_code == scramble(m, input_code)
        stepped == IF ~m.STATIC THEN step(m, m.rotor_R) ELSE m
    IN  [m |-> stepped, raised |-> "", out |-> chr(return_code + 65),
         return_code |-> return_code]

\* encypher stepping the rotors whatever STATIC says
encypher_static_ignored(m, letter) ==
    IF Len(letter) # 1
    THEN [m |-> m, raised |-> "TypeError", out |-> "", return_code |-> -1]
    ELSE IF ~PyInRange(m.plugboard, ord(letter[1]) - 65)
    THEN [m |-> m, raised |-> "IndexError", out |-> "", return_code |-> -1]
    ELSE
    LET input_code == PyIndex(m.plugboard, ord(letter[1]) - 65)
        stepped == step(m, m.rotor_R)
        return_code == scramble(stepped, input_code)
    IN  [m |-> stepped, raised |-> "", out |-> chr(return_code + 65),
         return_code |-> return_code]

\* encypher with the STATIC test inverted
encypher_static_inverted(m, letter) ==
    IF Len(letter) # 1
    THEN [m |-> m, raised |-> "TypeError", out |-> "", return_code |-> -1]
    ELSE IF ~PyInRange(m.plugboard, ord(letter[1]) - 65)
    THEN [m |-> m, raised |-> "IndexError", out |-> "", return_code |-> -1]
    ELSE
    LET input_code == PyIndex(m.plugboard, ord(letter[1]) - 65)
        stepped == IF m.STATIC THEN step(m, m.rotor_R) ELSE m
        return_code == scramble(stepped, input_code)
    IN  [m |-> stepped, raised |-> "", out |-> chr(return_code + 65),
         return_code |-> return_code]

\* encypher(letter): the machine left behind, the exception raised, the
\* letter returned and the code it was made from.  The log calls format
\* codes that chr accepts and change nothing.
encypher(m, letter) ==
    IF Len(letter) # 1
    THEN [m |-> m, raised |-> "TypeError", out |-> "", return_code |-> -1]
    ELSE IF ~PyInRange(m.plugboard, ord(letter[1]) - 65)
    THEN [m |-> m, raised |-> "IndexError", out |-> "", return_code |-> -1]
    ELSE
    LET input_code == PyIndex(m.plugboard, ord(letter[1]) - 65)
        \* what the call returns once the rotors stand as in stepped
        returned(stepped) ==
            LET return_code == scramble(stepped, input_code)
            IN  [m |-> stepped, raised |-> "", out |-> chr(return_code + 65),
                 return_code |-> return_code]
    IN  CHOOSE outcome \in
            { returned(stepped) :
                  stepped \in {IF ~m.STATIC THEN step(m, m.rotor_R) ELSE m} } :
            TRUE

RECURSIVE encoded_message(_, _)
\* the loop of message(): the letters encypher returns for the letters of
\* a message, one call after the other
encoded_message(m, cleaned_up_message) ==
    IF cleaned_up_message = <<>> THEN <<>>
    ELSE LET outcome == encypher(m, <<Head(cleaned_up_message)>>)
         IN  <<outcome.out>>
             \o encoded_message(outcome.m, Tail(cleaned_up_message))

---------------------------------------------------------------------------
(* The state after Enigma(): six fresh rotors, then _configure with the    *)
(* defaults '123', 'AAA', None, 'AAA', then STATIC = False.                *)

Fresh ==
    [position |-> [r \in RotorObjects |-> 0],
     ring_setting |-> [r \in RotorObjects |-> 0],
     out_alphabet_out |-> A_ring_setting_alphabet,
     out_alphabet_back |->
         [r \in RotorObjects |-> _back_alphabet(A_ring_setting_alphabet[r])],
     left |-> [r \in RotorObjects |-> None],
     right |-> [r \in RotorObjects |-> None],
     rotor_L |-> None, rotor_M |-> None, rotor_R |-> None,
     reflector |-> None, plugboard |-> <<>>, STATIC |-> FALSE]

Constructed ==
    _configure(Fresh, <<"1", "2", "3">>, <<"A", "A", "A">>, <<>>,
               <<"A", "A", "A">>).m

Init ==
    /\ position = Constructed.position
    /\ ring_setting = Constructed.ring_setting
    /\ out_alphabet_out = Constructed.out_alphabet_out
    /\ out_alphabet_back = Constructed.out_alphabet_back
    /\ left = Constructed.left
    /\ right = Constructed.right
    /\ rotor_L = Constructed.rotor_L
    /\ rotor_M = Constructed.rotor_M
    /\ rotor_R = Constructed.rotor_R
    /\ reflector = Constructed.reflector
    /\ plugboard = Constructed.plugboard
    /\ STATIC = Constructed.STATIC
    /\ last = [op |-> "__init__", arg |-> <<>>, raised |-> "", out |-> "",
               return_code |-> -1, pre |-> Constructed.position]
    /\ nkeys = 0
    /\ nconf = 0
    /\ phase = "idle"
    /\ key = <<>>
    /\ plain = <<>>
    /\ cipher = <<>>
    /\ decoded = <<>>

\* the machine a call leaves behind becomes the state
Commit(m) ==
    /\ position' = m.position
    /\ ring_setting' = m.ring_setting
    /\ out_alphabet_out' = m.out_alphabet_out
    /\ out_alphabet_back' = m.out_alphabet_back
    /\ left' = m.left
    /\ right' = m.right
    /\ rotor_L' = m.rotor_L
    /\ rotor_M' = m.rotor_M
    /\ rotor_R' = m.rotor_R
    /\ reflector' = m.reflector
    /\ plugboard' = m.plugboard
    /\ STATIC' = m.STATIC

---------------------------------------------------------------------------
(* The calls a client makes.  last records the call and what came of it:   *)
(* the exception raised, the letter returned, the code the letter was made *)
(* from, and the rotor positions before the call.                          *)

\* enigma._configure(rotor_selection, ring_settings, plugs, indicator=...)
Configure(c) ==
    /\ \E outcome \in {_configure(Machine, c.rotor_selection,
                                  c.ring_settings, c.plugboard,
                                  c.indicator)} :
           /\ Commit(outcome.m)
           /\ last' = [op |-> "_configure", arg |-> c,
                       raised |-> outcome.raised, out |-> "",
                       return_code |-> -1, pre |-> position]
    /\ nconf' = nconf + 1
    /\ UNCHANGED nkeys

\* enigma.encypher(letter)
Encypher(letter) ==
    /\ \E outcome \in {encypher(Machine, letter)} :
           /\ Commit(outcome.m)
           /\ last' = [op |-> "encypher", arg |-> letter,
                       raised |-> outcome.raised, out |-> outcome.out,
                       return_code |-> outcome.return_code, pre |-> position]
           /\ nkeys' = IF outcome.raised = "" THEN nkeys + 1 ELSE nkeys
    /\ UNCHANGED nconf

\* enigma.step(rotor), for the rotor of a slot
Step(rotor) ==
    /\ \E stepped \in {step(Machine, rotor)} : Commit(stepped)
    /\ last' = [op |-> "step", arg |-> rotor, raised |-> "", out |-> "",
                return_code |-> -1, pre |-> position]
    /\ nkeys' = nkeys + 1
    /\ UNCHANGED nconf

\* enigma.STATIC = value
SetSTATIC(value) ==
    /\ STATIC # value
    /\ Commit([Machine EXCEPT !.STATIC = value])
    /\ last' = [op |-> "STATIC", arg |-> value, raised |-> "", out |-> "",
                return_code |-> -1, pre |-> position]
    /\ UNCHANGED <<nkeys, nconf>>

\* enigma.rotors[k].set_ring(letter), as the unit tests call it
SetRing(rotor, letter) ==
    /\ Commit(set_ring(Machine, rotor, letter))
    /\ last' = [op |-> "set_ring", arg |-> <<rotor, letter>>, raised |-> "",
                out |-> "", return_code |-> -1, pre |-> position]
    /\ nconf' = nconf + 1
    /\ UNCHANGED nkeys

Config(rotor_selection, ring_settings, plugs, indicator) ==
    [rotor_selection |-> rotor_selection, ring_settings |-> ring_settings,
     plugboard |-> plugs, indicator |-> indicator]

\* the rotors on the shaft
Slots == {rotor_L, rotor_M, rotor_R}

---------------------------------------------------------------------------
(* Spec: a client that configures the machine, presses keys, steps rotors  *)
(* and sets STATIC.  The configurations are those of the unit tests and    *)
(* malformed ones; the arguments of encypher are letters and other strings.*)

Configurations ==
    { Config(<<"1","2","3">>, <<"A","A","A">>, <<>>, <<"A","A","A">>),
      Config(<<"1","2","3">>, <<"A","A","A">>,
             << <<"A","N">>, <<"P","F">> >>, <<"A","A","A">>),
      Config(<<"1","2","3">>, <<"C","Z","J">>, <<>>, <<"A","E","V">>),
      Config(<<"3","2","1">>, <<"A","B","C">>, <<>>, <<"A","E","R">>),
      Config(<<"1","2","3">>, <<"A","A","A">>,
             << <<"A","B">>, <<"A","C">> >>, <<"A","A","A">>),
      Config(<<"0","2","3">>, <<"A","A","A">>, <<>>, <<"A","A","A">>),
      Config(<<"6","2","3">>, <<"A","A","A">>, <<>>, <<"A","A","A">>),
      Config(<<"1","2","3">>, <<"B","B","B","B">>, <<>>, <<"A","A","A">>),
      Config(<<"1","2","3">>, <<"A","A","A">>, <<>>, <<"A","D","V","A">>),
      Config(<<"1","2","3">>, <<"B","B">>, <<>>, <<"A","A","A">>) }

Arguments ==
    { <<"A">>, <<"B">>, <<"@">>, <<"a">>, <<>>, <<"A","B">> }

Next ==
    \/ \E c \in Configurations :
           nconf < MaxConfigs /\ Configure(c) /\ UNCHANGED exchange
    \/ \E letter \in Arguments :
           nkeys < MaxKeys /\ Encypher(letter) /\ UNCHANGED exchange
    \/ \E rotor \in Slots :
           nkeys < MaxKeys /\ Step(rotor) /\ UNCHANGED exchange
    \/ \E value \in BOOLEAN : SetSTATIC(value) /\ UNCHANGED exchange

Spec == Init /\ [][Next]_vars

---------------------------------------------------------------------------
(* SpecStep: a fresh machine is configured once, with an empty plugboard,  *)
(* and then keys are pressed and rotors stepped.  Every rotor of the       *)
(* catalogue is mounted in the middle and on the right, and one selection  *)
(* mounts a rotor twice.  The indicator puts each window before, on or     *)
(* after the notch of the rotor behind it; with the ring settings B and C  *)
(* a window one or two after the notch has the raw position on the notch.  *)

StepSelections ==
    { <<"1","2","3">>, <<"3","2","1">>, <<"2","4","5">>, <<"5","1","4">>,
      <<"4","5","3">>, <<"4","3","2">>, <<"1","2","2">> }

StepRings == { <<"A","A","A">>, <<"A","B","B">>, <<"C","B","C">> }

\* how far after its rotor's notch each window starts (left, middle, right)
StepOffsets ==
    { <<l, mid, r>> : l \in {0, 1}, mid \in {-1, 0, 1}, r \in {-1, 0, 1, 2} }

\* the indicator that shows, for each slot, the letter so far after the
\* notch of the rotor the selection mounts there
near_notch(rotor_selection, offsets) ==
    [k \in 1..3 |->
        chr(((notch[choice(rotor_selection, k - 1)] + offsets[k]) % 26) + 65)]

NextStep ==
    \/ \E sel \in StepSelections, rings \in StepRings, offsets \in StepOffsets :
           /\ nconf = 0 /\ nkeys = 0
           /\ Configure(Config(sel, rings, <<>>, near_notch(sel, offsets)))
           /\ UNCHANGED exchange
    \/ nkeys < MaxPresses /\ Encypher(<<"A">>) /\ UNCHANGED exchange
    \/ \E rotor \in Slots :
           nkeys < MaxPresses /\ Step(rotor) /\ UNCHANGED exchange
    \/ \E value \in BOOLEAN : SetSTATIC(value) /\ UNCHANGED exchange

SpecStep == Init /\ [][NextStep]_vars

---------------------------------------------------------------------------
(* SpecExchange: a message is enciphered letter by letter on a machine     *)
(* configured with a key, the machine is configured again with the same    *)
(* key, and the cipher text is enciphered letter by letter.                *)

ExchangeKeys ==
    { Config(<<"1","2","3">>, <<"A","A","A">>, <<>>, <<"A","A","A">>),
      Config(<<"1","2","3">>, <<"A","A","A">>,
             << <<"A","N">>, <<"P","F">> >>, <<"A","A","A">>),
      Config(<<"1","2","3">>, <<"C","Z","J">>, <<>>, <<"A","E","V">>),
      Config(<<"3","2","1">>, <<"A","B","C">>, <<>>, <<"A","E","R">>) }

ExchangeLetters == {"A", "B", "N"}

ExConfigure(c) ==
    /\ phase = "idle"
    /\ Configure(c)
    /\ phase' = "encode"
    /\ key' = c
    /\ UNCHANGED <<plain, cipher, decoded>>

ExEncode(letter) ==
    /\ phase = "encode"
    /\ Len(plain) < MaxMessage
    /\ Encypher(<<letter>>)
    /\ plain' = Append(plain, letter)
    /\ cipher' = Append(cipher, last'.out)
    /\ UNCHANGED <<phase, key, decoded>>

ExReconfigure ==
    /\ phase = "encode"
    /\ Len(plain) > 0
    /\ Configure(key)
    /\ phase' = "decode"
    /\ UNCHANGED <<key, plain, cipher, decoded>>

ExDecode ==
    /\ phase = "decode"
    /\ Len(decoded) < Len(cipher)
    /\ Encypher(<<cipher[Len(decoded) + 1]>>)
    /\ decoded' = Append(decoded, last'.out)
    /\ UNCHANGED <<phase, key, plain, cipher>>

NextExchange ==
    \/ \E c \in ExchangeKeys : ExConfigure(c)
    \/ \E letter \in ExchangeLetters : ExEncode(letter)
    \/ ExReconfigure
    \/ ExDecode

SpecExchange == Init /\ [][NextExchange]_vars

---------------------------------------------------------------------------
(* SpecReset: a machine is used in an earlier session (configured, well or *)
(* badly, keys pressed, STATIC set), then configured with a key, and then  *)
(* a message is enciphered letter by letter.                               *)

EarlierConfigurations ==
    Configurations
    \cup { Config(<<"4","5","1">>, <<"B","C","D">>, << <<"A","Y">> >>,
                  <<"K","L","M">>) }

NextReset ==
    \/ \E c \in EarlierConfigurations :
           /\ phase = "idle"
           /\ nconf < MaxConfigs
           /\ Configure(c)
           /\ UNCHANGED exchange
    \/ /\ phase = "idle"
       /\ nkeys < MaxPresses
       /\ Encypher(<<"A">>)
       /\ UNCHANGED exchange
    \/ \E value \in BOOLEAN :
           phase = "idle" /\ SetSTATIC(value) /\ UNCHANGED exchange
    \/ \E c \in ExchangeKeys : ExConfigure(c)
    \/ \E letter \in ExchangeLetters :
           Len(plain) < MaxPresses /\ ExEncode(letter)

SpecReset == Init /\ [][NextReset]_vars

---------------------------------------------------------------------------
(* SpecRun: a machine, as built or configured once with three different   *)
(* rotors, enciphers letter after letter with stepping enabled, without    *)
(* end.  The calls are not counted, and the client never stops calling.    *)

RunConfigurations ==
    { Config(<<"5","4","2">>, <<"B","C","D">>, <<>>, <<"X","J","F">>),
      Config(<<"3","1","4">>, <<"Z","A","M">>, <<>>, <<"A","R","J">>) }

\* enigma.encypher('A'), one of the calls of a message without end
Press ==
    /\ \E outcome \in {encypher(Machine, <<"A">>)} :
           /\ Commit(outcome.m)
           /\ last' = [op |-> "encypher", arg |-> <<"A">>,
                       raised |-> outcome.raised, out |-> outcome.out,
                       return_code |-> outcome.return_code, pre |-> position]
    /\ UNCHANGED <<nkeys, nconf, exchange>>

NextRun ==
    \/ \E c \in RunConfigurations :
           /\ last.op = "__init__"
           /\ Configure(c)
           /\ UNCHANGED exchange
    \/ Press

SpecRun == Init /\ [][NextRun]_vars /\ WF_vars(Press)

---------------------------------------------------------------------------
(* SpecRing: a client takes one rotor of the catalogue of a fresh machine  *)
(* and sets its ring, to any of the 26 letters, time and again; or it goes *)
(* on to another rotor and sets its ring to B, as test_ring_setting_2 does.*)

RingLetters == { chr(n) : n \in 65..90 }

NextRing ==
    \E rotor \in Rotors, letter \in RingLetters :
        /\ nconf < MaxRings
        /\ last.op = "set_ring" => (rotor = last.arg[1] \/ letter = "B")
        /\ SetRing(rotor, letter)
        /\ UNCHANGED exchange

SpecRing == Init /\ [][NextRing]_vars

---------------------------------------------------------------------------
(* What the claims speak of.                                               *)

\* a string that is exactly one letter A-Z
IsLetter(string) == Len(string) = 1 /\ ord(string[1]) \in 65..90

\* the last call was an encypher call that returned a letter
Enciphered == last.op = "encypher" /\ last.raised = ""

\* the last call stepped the rightmost rotor: step(rotor_R), or an encypher
\* call that returned with stepping enabled
KeyPressed ==
    \/ last.op = "step" /\ last.arg = rotor_R
    \/ Enciphered /\ ~STATIC

\* three different rotors are on the shaft
Distinct == Cardinality({rotor_L, rotor_M, rotor_R}) = 3

\* the window value of a rotor before the last call
pre_window(rotor) == (last.pre[rotor] + ring_setting[rotor]) % 26

\* the last call advanced the rotor by one
advanced(rotor) == position[rotor] = (last.pre[rotor] + 1) % 26

\* the last call left the rotor where it was
unmoved(rotor) == position[rotor] = last.pre[rotor]

\* some letter occurs in two bigrams of the plugboard argument
Overlapping(plugs) ==
    \E i, j \in 1..Len(plugs) :
        /\ i # j
        /\ {plugs[i][1], plugs[i][2]} \cap {plugs[j][1], plugs[j][2]} # {}

\* a rotor id outside 1..5, or ring settings or an indicator that are not
\* three letters
Malformed(c) ==
    \/ \E k \in 1..Len(c.rotor_selection) :
           c.rotor_selection[k] \notin {"1", "2", "3", "4", "5"}
    \/ Len(c.ring_settings) # 3
    \/ Len(c.indicator) # 3

---------------------------------------------------------------------------
(* The claims.                                                             *)

\* C1: reciprocity.  When a message was enciphered under a configuration
\* and an indicator, and the machine is configured again with the same
\* configuration and indicator, enciphering the cipher text gives the
\* message back, letter by letter.
Reciprocity ==
    phase = "decode" =>
        \A i \in 1..Len(decoded) : decoded[i] = plain[i]

\* C2: the plugboard is applied at both ends.  With a plugboard of disjoint
\* pairs, the letter encypher returns for a letter is the plugboard image
\* of the code that leaves the rightmost rotor on the way back, and that
\* code is made from the plugboard image of the letter.
PlugboardAtBothEnds ==
    (/\ Enciphered /\ IsLetter(last.arg)
     /\ \A i \in 0..25 : PyIndex(plugboard, PyIndex(plugboard, i)) = i) =>
        /\ last.return_code =
               scramble(Machine, PyIndex(plugboard, ord(last.arg[1]) - 65))
        /\ last.out = chr(PyIndex(plugboard, last.return_code) + 65)

\* C3: encypher fails for every argument that is not exactly one letter
\* A-Z; no such argument gets a letter back.
NonLetterFails ==
    (last.op = "encypher" /\ ~IsLetter(last.arg)) =>
        (last.raised # "" /\ last.out = "")

\* C4: an encypher call that fails on its argument leaves the rotor
\* positions, the ring settings, the wiring tables and the plugboard as
\* they were: a failing call never steps a rotor.
FailedEncypherChangesNothing ==
    [][(last'.op = "encypher" /\ last'.raised # "") => UNCHANGED machine]_vars

\* C4 witness: an encypher call failed on a machine with stepping enabled
\* that had stepped before, and the rotors are where they were.
FailedEncypherSeen ==
    /\ last.op = "encypher"
    /\ last.raised # ""
    /\ ~STATIC
    /\ nkeys > 0
    /\ position = last.pre

\* C5: _configure with plugboard pairs that share a letter fails.
OverlappingPairsFail ==
    (last.op = "_configure" /\ Overlapping(last.arg.plugboard)) =>
        last.raised # ""

\* C6: the plugboard table is an involution in every reachable state.
PlugboardInvolution ==
    \A i \in 0..25 :
        /\ PyInRange(plugboard, PyIndex(plugboard, i))
        /\ PyIndex(plugboard, PyIndex(plugboard, i)) = i

\* C7: _configure fails when a rotor id is not one of 1..5 or when the
\* ring settings or the indicator are not exactly three letters.
MalformedConfigurationFails ==
    (last.op = "_configure" /\ Malformed(last.arg)) => last.raised # ""

\* C8: double-stepping.  With three different rotors on the shaft, a step
\* of the rightmost rotor made while the middle rotor's window is on its
\* notch advances the middle rotor and the left rotor by one, whatever the
\* rightmost rotor's window; so a middle rotor that one key press moved
\* onto its notch advances again at the next key press.
DoubleStepping ==
    /\ []((KeyPressed /\ Distinct /\ pre_window(rotor_M) = notch[rotor_M])
            => (advanced(rotor_M) /\ advanced(rotor_L)))
    /\ [][(/\ KeyPressed /\ Distinct /\ ~unmoved(rotor_M)
           /\ get_window_numeral(Machine, rotor_M) = notch[rotor_M]
           /\ KeyPressed' /\ nkeys' = nkeys + 1)
            => position'[rotor_M] = (position[rotor_M] + 1) % 26]_vars

\* C8 witness: the rightmost rotor was stepped off its notch while the
\* middle rotor's window was on its notch, and the middle and the left
\* rotor advanced.
DoubleSteppingSeen ==
    /\ KeyPressed
    /\ Distinct
    /\ pre_window(rotor_M) = notch[rotor_M]
    /\ pre_window(rotor_R) # notch[rotor_R]
    /\ advanced(rotor_M)
    /\ advanced(rotor_L)

\* C9: turnover goes by the window.  With three different rotors on the
\* shaft, one step of the rightmost rotor advances it by one; it advances
\* the middle rotor by one exactly when the rightmost or the middle
\* rotor's window was on its notch, and the left rotor by one exactly when
\* the middle rotor's window was on its notch; otherwise they stay.
TurnoverByWindow ==
    (KeyPressed /\ Distinct) =>
        /\ advanced(rotor_R)
        /\ IF \/ pre_window(rotor_R) = notch[rotor_R]
              \/ pre_window(rotor_M) = notch[rotor_M]
           THEN advanced(rotor_M) ELSE unmoved(rotor_M)
        /\ IF pre_window(rotor_M) = notch[rotor_M]
           THEN advanced(rotor_L) ELSE unmoved(rotor_L)

\* C9 witness: the rightmost rotor was stepped with its raw position on
\* its notch and its window off it, and the middle rotor stayed.
RawNotchNoTurnoverSeen ==
    /\ KeyPressed
    /\ Distinct
    /\ last.pre[rotor_R] = notch[rotor_R]
    /\ pre_window(rotor_R) # notch[rotor_R]
    /\ pre_window(rotor_M) # notch[rotor_M]
    /\ advanced(rotor_R)
    /\ unmoved(rotor_M)
    /\ unmoved(rotor_L)

\* C10: with stepping enabled, every encypher call that returns a letter
\* advances the rightmost rotor's position by exactly one modulo 26.
RightRotorStepsByOne ==
    (Enciphered /\ ~STATIC) => advanced(rotor_R)

\* C10 witness: an encypher call took the rightmost rotor from 25 to 0.
RightRotorWrapSeen ==
    /\ Enciphered
    /\ ~STATIC
    /\ last.pre[rotor_R] = 25
    /\ position[rotor_R] = 0

\* the rotor of the k-th slot, from the left
slot(k) == <<rotor_L, rotor_M, rotor_R>>[k]

\* the last call was a _configure call that returned, with three ring
\* letters and three indicator letters
Configured ==
    /\ last.op = "_configure"
    /\ last.raised = ""
    /\ Len(last.arg.ring_settings) = 3
    /\ Len(last.arg.indicator) = 3

\* C11: after a _configure call with three ring letters and three indicator
\* letters, the rotor of every slot has the internal position (indicator
\* letter - ring setting) mod 26 of its slot, and the window reads exactly
\* the indicator.
ConfigureSetsWindow ==
    Configured =>
        /\ \A k \in 1..3 :
               position[slot(k)] =
                   (ord(last.arg.indicator[k]) - 65
                        - ring_setting[slot(k)]) % 26
        /\ get_window(Machine) = last.arg.indicator

\* C12: after set_ring with offset r on a rotor with base wiring A, the
\* forward table has out[i] = (A[(i - r) mod 26] + r) mod 26 for every i in
\* 0..25; for rotor I and r = 2 it reads ELGMOHNIFSXBPVQYAJZWURCKDT.
RingTransform ==
    last.op = "set_ring" =>
        LET rotor == last.arg[1]
            r == ord(last.arg[2]) - 65
        IN  /\ ring_setting[rotor] = r
            /\ Len(out_alphabet_out[rotor]) = 26
            /\ \A i \in 0..25 :
                   PyIndex(out_alphabet_out[rotor], i) =
                       (PyIndex(A_ring_setting_alphabet[rotor], (i - r) % 26)
                            + r) % 26
            /\ (rotor = 1 /\ r = 2) =>
                   alphabet(Machine, rotor) =
                       <<"E","L","G","M","O","H","N","I","F","S","X","B","P",
                         "V","Q","Y","A","J","Z","W","U","R","C","K","D","T">>

\* C12 witness: the ring of rotor I was set to C, and A is wired to E.
RingCSeen ==
    /\ last.op = "set_ring"
    /\ last.arg = <<1, "C">>
    /\ ring_setting[1] = 2
    /\ encode_out(Machine, 1, 0) = 4

\* the table of a rotor holds every code 0..25
IsPermutation(table) ==
    Len(table) = 26 /\ {table[i] : i \in 1..26} = 0..25

\* C13: after any sequence of set_ring calls on the rotors of the
\* catalogue, with any ring letters, the forward table of every rotor of the catalogue
\* is a permutation of 0..25 and the backward table is its exact inverse:
\* encode_back(encode_out(i)) = i for every i.
PermutationClosure ==
    \A rotor \in Rotors :
        /\ IsPermutation(out_alphabet_out[rotor])
        /\ IsPermutation(out_alphabet_back[rotor])
        /\ \A i \in 0..25 :
               encode_back(Machine, rotor, encode_out(Machine, rotor, i)) = i

\* C13 witness: the ring of a rotor was set twice, the second time to a
\* letter other than A, and the backward table takes back what the forward
\* table gave for A.
SecondRingSeen ==
    /\ last.op = "set_ring"
    /\ nconf = 2
    /\ ring_setting[last.arg[1]] > 0
    /\ out_alphabet_out[last.arg[1]] # A_ring_setting_alphabet[last.arg[1]]
    /\ encode_back(Machine, last.arg[1],
                   encode_out(Machine, last.arg[1], 0)) = 0

\* the configuration Enigma() starts with: rotors I, II, III, rings AAA,
\* an empty plugboard, indicator AAA
DefaultKey ==
    Config(<<"1","2","3">>, <<"A","A","A">>, <<>>, <<"A","A","A">>)

\* C14: stepping precedes substitution.  With stepping enabled, an encypher
\* call that returns a letter returns what encypher returns in static mode
\* in the state reached by step(rotor_R) from the state of the call; and
\* from the default configuration, successive encypher('A') calls return
\* B, D, Z, G, O.
StepThenSubstitute ==
    /\ [][(last'.op = "encypher" /\ last'.raised = "" /\ ~STATIC) =>
              last'.out =
                  encypher([step(Machine, rotor_R) EXCEPT !.STATIC = TRUE],
                           last'.arg).out]_vars
    /\ [](  (/\ phase = "encode"
             /\ key = DefaultKey
             /\ \A i \in 1..Len(plain) : plain[i] = "A")
          => \A i \in 1..Len(cipher) :
                 i <= 5 => cipher[i] = <<"B", "D", "Z", "G", "O">>[i])

\* C14 witness: five A were enciphered from the default configuration, to
\* B, D, Z, G, O.
FiveLettersSeen ==
    /\ phase = "encode"
    /\ key = DefaultKey
    /\ plain = <<"A", "A", "A", "A", "A">>
    /\ cipher = <<"B", "D", "Z", "G", "O">>
    /\ Enciphered
    /\ ~STATIC

\* the configuration of the plugboard tests: rotors I, II, III, rings AAA,
\* plugboard pairs AN and PF, indicator AAA
PlugKey ==
    Config(<<"1","2","3">>, <<"A","A","A">>,
           << <<"A","N">>, <<"P","F">> >>, <<"A","A","A">>)

\* C15: with rotors I, II, III, rings AAA, plugboard pairs AN and PF and
\* indicator AAA, encypher('A') returns Y, and encypher('N') called right
\* after it, as the second character, returns B.
PlugboardSecondLetter ==
    (phase = "encode" /\ key = PlugKey) =>
        /\ (Len(plain) >= 1 /\ plain[1] = "A") => cipher[1] = "Y"
        /\ (Len(plain) >= 2 /\ plain[1] = "A" /\ plain[2] = "N")
               => cipher[2] = "B"

\* C15, amended: with that configuration encypher('A') returns Y as the
\* first character, and encypher('N') returns B as the first character
\* after the configuration and D as the second character, after 'A'.
PlugboardFirstLetter ==
    (phase = "encode" /\ key = PlugKey) =>
        /\ (Len(plain) >= 1 /\ plain[1] = "A") => cipher[1] = "Y"
        /\ (Len(plain) >= 1 /\ plain[1] = "N") => cipher[1] = "B"
        /\ (Len(plain) >= 2 /\ plain[1] = "A" /\ plain[2] = "N")
               => cipher[2] = "D"

\* C15 witness: A and then N were enciphered with the plugboard AN, PF.
PlugboardLettersSeen ==
    /\ phase = "encode"
    /\ key = PlugKey
    /\ plain = <<"A", "N">>
    /\ cipher = <<"Y", "D">>

\* what a machine built by Enigma(), configured with the key and put in the
\* stepping mode of the machine at hand, enciphers the letters to
FreshCipher(c, letters) ==
    encoded_message(
        [_configure(Constructed, c.rotor_selection, c.ring_settings,
                    c.plugboard, c.indicator).m EXCEPT !.STATIC = STATIC],
        letters)

\* C16: determinism from a reset state.  After a _configure call with a
\* configuration and an indicator, the letters enciphered come out as they
\* do on a machine fresh from Enigma() and configured the same, whatever
\* was configured or enciphered on the machine before that call.
ResetDeterminism ==
    phase = "encode" => cipher = FreshCipher(key, plain)

\* C16 witness: a machine that was configured and used before, and holds
\* an unmounted rotor off its initial position and ring setting, was
\* configured with a key and has enciphered two letters.
UsedMachineResetSeen ==
    /\ phase = "encode"
    /\ nconf = 2
    /\ Len(plain) = 2
    /\ nkeys > Len(plain)
    /\ Enciphered
    /\ \E rotor \in Rotors \ Slots :
           position[rotor] # 0 /\ ring_setting[rotor] # 0

\* C17: frame of encypher.  An encypher call that returns a letter changes
\* nothing but the positions of the rotors on the shaft: ring settings,
\* forward and backward tables, the left and right neighbours, the rotors
\* of the slots, the reflector, the plugboard and STATIC stay as they are
\* (the notches are fixed at construction), and so does the position of
\* every rotor off the shaft; in static mode no position changes at all.
EncypherFrame ==
    [][(last'.op = "encypher" /\ last'.raised = "") =>
          /\ UNCHANGED <<ring_setting, out_alphabet_out, out_alphabet_back,
                         left, right, rotor_L, rotor_M, rotor_R, reflector,
                         plugboard, STATIC>>
          /\ \A rotor \in RotorObjects \ Slots :
                 position'[rotor] = position[rotor]
          /\ STATIC => UNCHANGED position]_vars

\* C17 witness: an encypher call in static mode returned a letter, on a
\* machine whose rotors had been moved from where _configure put them, and
\* left every position as it was.
StaticEncypherSeen ==
    /\ Enciphered
    /\ STATIC
    /\ nkeys >= 2
    /\ position = last.pre
    /\ position[rotor_R] # 0

\* the letter encypher returns for a letter in the state at hand
letter_of(x) == encypher(Machine, <<x>>).out

\* the machine stands as Enigma() leaves it: rotors I, II, III, rings AAA,
\* window AAA
AtAAA ==
    /\ <<rotor_L, rotor_M, rotor_R>> = <<1, 2, 3>>
    /\ \A rotor \in Slots : ring_setting[rotor] = 0 /\ position[rotor] = 0

\* C18: in static mode, with an empty (identity) plugboard and three
\* different rotors on the shaft, whatever the ring settings and the
\* positions, the substitution is an involution on the 26 letters: when
\* encypher(x) returns y in a state, encypher(y) returns x in the same
\* state; at AAA, A goes to U, G to P and P to G.
StaticInvolution ==
    (STATIC /\ Distinct /\ plugboard = [i \in 1..26 |-> i - 1]) =>
        /\ \A x \in RingLetters :
               \E y \in {letter_of(x)} : letter_of(y) = x
        /\ AtAAA =>
               /\ letter_of("A") = "U"
               /\ letter_of("G") = "P"
               /\ letter_of("P") = "G"

\* C18 witness: a machine in static mode, with three different rotors whose
\* rings are not A and whose middle rotor a step has moved, takes A to
\* another letter and that letter back to A.
InvolutionAfterTurnoverSeen ==
    /\ STATIC
    /\ Distinct
    /\ plugboard = [i \in 1..26 |-> i - 1]
    /\ last.op = "step"
    /\ advanced(rotor_M)
    /\ \A rotor \in Slots : ring_setting[rotor] # 0
    /\ \E y \in {letter_of("A")} : y # "A" /\ letter_of(y) = "A"

\* the inverse of a wiring table, from the table alone
Inverse(table) ==
    [i \in 1..26 |-> CHOOSE code \in 0..25 : PyIndex(table, code) = i - 1]

\* S_X(c) = (W_X[(c + p_X) mod 26] - p_X) mod 26, for the rotor X with the
\* wiring W and the position p
S(W, p, c) == (PyIndex(W, (c + p) % 26) - p) % 26

\* the reference composition S_R^-1(S_M^-1(S_L^-1(U(S_L(S_M(S_R(c))))))):
\* W_X is the forward table of the rotor of slot X, S_X^-1 is S over the
\* inverse of W_X, and U is the wiring of the reflector
reference(c) ==
    LET W_L == out_alphabet_out[rotor_L]
        W_M == out_alphabet_out[rotor_M]
        W_R == out_alphabet_out[rotor_R]
        p_L == position[rotor_L]
        p_M == position[rotor_M]
        p_R == position[rotor_R]
        U == A_ring_setting_alphabet[reflectorB]
        out == S(W_L, p_L, S(W_M, p_M, S(W_R, p_R, c)))
    IN  S(Inverse(W_R), p_R,
          S(Inverse(W_M), p_M,
            S(Inverse(W_L), p_L, PyIndex(U, out))))

\* C19: signal-path equivalence.  In every state and for every code c in
\* 0..25, the way out, the turnaround and the way back of encypher return
\* the code the reference composition returns.
SignalPathEquivalence ==
    \A c \in 0..25 : scramble(Machine, c) = reference(c)

\* C20: the reflector never moves.  In every state, after any sequence of
\* _configure, step (of the rotor of any slot) and encypher calls, the
\* reflector is the Wide-B object, its position is 0 and its ring setting
\* is 0, also when the leftmost rotor is stepped with its window on its
\* notch.
ReflectorNeverMoves ==
    /\ reflector = reflectorB
    /\ position[reflector] = 0
    /\ ring_setting[reflector] = 0

\* C20 witness: step was called on the leftmost rotor with its window on
\* its notch; the rotor advanced and the reflector stayed.
LeftNotchStepSeen ==
    /\ last.op = "step"
    /\ last.arg = rotor_L
    /\ pre_window(rotor_L) = notch[rotor_L]
    /\ advanced(rotor_L)
    /\ left[rotor_L] = reflector
    /\ position[reflector] = 0

\* how many times the last call incremented the position of a rotor, read
\* off the position before and after it
increments(rotor) == (position[rotor] - last.pre[rotor]) % 26

\* C21: the stepping cascade is bounded.  With three different rotors on
\* the shaft, one call of step on the rightmost rotor returns after at most
\* three position increments in all, and increments no rotor more than
\* once: the double-stepping branch and the carry branch never both fire.
CascadeBounded ==
    (KeyPressed /\ Distinct) =>
        /\ \A rotor \in RotorObjects : increments(rotor) <= 1
        /\ \A rotor \in RotorObjects \ Slots : increments(rotor) = 0
        /\ increments(rotor_L) + increments(rotor_M) + increments(rotor_R)
               <= 3
        /\ increments(rotor_R) = 1

\* C21 witness: the rightmost rotor was stepped with its window and the
\* window of the middle rotor both on their notches, and each of the three
\* rotors advanced by one.
FullCascadeSeen ==
    /\ KeyPressed
    /\ Distinct
    /\ pre_window(rotor_R) = notch[rotor_R]
    /\ pre_window(rotor_M) = notch[rotor_M]
    /\ increments(rotor_R) = 1
    /\ increments(rotor_M) = 1
    /\ increments(rotor_L) = 1

\* C22: with an empty (identity) plugboard, three different rotors of the
\* catalogue on the shaft and the Wide-B reflector, whatever the ring
\* settings and the positions, no letter is enciphered to itself:
\* encypher(x) returns a letter other than x, for every letter x.
NoLetterToItself ==
    (Distinct /\ plugboard = [i \in 1..26 |-> i - 1]) =>
        /\ \A x \in RingLetters : letter_of(x) # x
        /\ Enciphered => last.out # last.arg[1]

\* C22 witness: on a machine with three different rotors whose rings are
\* not A, an encypher call with stepping enabled moved the middle rotor and
\* returned a letter other than the one it was given.
OtherLetterSeen ==
    /\ Distinct
    /\ plugboard = [i \in 1..26 |-> i - 1]
    /\ Enciphered
    /\ ~STATIC
    /\ advanced(rotor_M)
    /\ \A rotor \in Slots : ring_setting[rotor] # 0
    /\ last.out \in RingLetters
    /\ last.out # last.arg[1]

\* C23: under repeated encypher calls with stepping enabled, on a machine
\* with three different rotors and any ring settings, from every state the
\* middle rotor eventually advances and the left rotor eventually
\* advances: no state leaves the left rotor stuck for ever.
RotorsKeepAdvancing ==
    /\ []<>(Enciphered /\ Distinct /\ advanced(rotor_M))
    /\ []<>(Enciphered /\ Distinct /\ advanced(rotor_L))

\* C23 witness: an encypher call on a machine with three different rotors
\* and rings other than A advanced the left rotor.
LeftRotorAdvanceSeen ==
    /\ Enciphered
    /\ ~STATIC
    /\ Distinct
    /\ \E rotor \in Slots : ring_setting[rotor] # 0
    /\ advanced(rotor_M)
    /\ advanced(rotor_L)

=============================================================================
